---- MODULE Spec2Model ----
(***************************************************************************)
(* Model of stt_proxy.                                                     *)
(*                                                                         *)
(* The transcription post-processing module (src/src/postprocess_cleaner   *)
(* .py): a Python string is a sequence of one-character strings; the four  *)
(* functions of the module are operators computed the way the code         *)
(* computes them, and every behaviour of Spec applies one of them to an    *)
(* input drawn from a bounded set of texts.                                *)
(*                                                                         *)
(* The proxy (src/src/stt_proxy.py): every behaviour of ProxySpec is a     *)
(* sequence of requests, each taken through its handler from one await of  *)
(* the code to the next, for a configuration loaded at startup.            *)
(***************************************************************************)
EXTENDS Integers, Sequences, FiniteSets, TLC

VARIABLES
    text,                     \* the input string
    pc,                       \* "ready", then the name of the function that was called
    min_repeats,              \* argument of detect_repetitive_ending (0: not called)
    max_consecutive_repeats,  \* argument of clean_repetitive_content (0: not called)
    has_repeat,               \* detect_repetitive_ending: first component of the result
    repeat_pos,               \* detect_repetitive_ending: second component of the result
    cleaned_text,             \* clean_repetitive_content: the returned string
    detected_issues,          \* detect_common_hallucinations: the returned list
    transcription_result,     \* postprocess_transcription: the argument
    result,                   \* postprocess_transcription: the outcome
    config,                   \* stt_proxy: the configuration loaded at startup
    request_stats,            \* stt_proxy: the three request counters
    requests_received,        \* number of requests the proxy has received
    proxied,                  \* history: the requests routed to proxy_handler, counted
    request,                  \* the request being handled, or the last one handled
    handler_pc,               \* the await the handler of the request stands at
    dispatched_to,            \* the function the request was dispatched to
    upstream_request,         \* what the handler sent to the target server
    upstream_response,        \* what the target server answered
    response,                 \* what the client received
    handlers                  \* the handlers of concurrently handled requests

cleaner_vars ==
    <<text, pc, min_repeats, max_consecutive_repeats, has_repeat, repeat_pos,
      cleaned_text, detected_issues, transcription_result, result>>

proxy_vars ==
    <<config, request_stats, requests_received, proxied, request, handler_pc,
      dispatched_to, upstream_request, upstream_response, response, handlers>>

vars == <<cleaner_vars, proxy_vars>>

(***************************************************************************)
(* Bounds of the model.                                                    *)
(***************************************************************************)
MaxTokens == 9          \* tokens in an input text
MaxLead == 2            \* leading whitespace characters
MaxTrail == 1           \* trailing whitespace characters
MaxGap == 2             \* whitespace characters between two tokens
MaxMinRepeats == 3      \* min_repeats ranges over 1..MaxMinRepeats
MaxConsecutive == 3     \* max_consecutive_repeats ranges over 1..MaxConsecutive
MaxPhraseLen == 2       \* characters of the phrase of scenario A
MaxFillerTokens == 2    \* tokens with filler characters in a text
MaxPlainTokens == 11    \* tokens after the tokens with filler characters
MaxDistinct == 4        \* distinct values among those tokens
MaxRequests == 2        \* requests the proxy receives in a behaviour
MaxHandlers == 2        \* requests handled at the same time
MaxArrivals == 3        \* requests received while others are being handled

(***************************************************************************)
(* Program constants.                                                      *)
(***************************************************************************)
DefaultMinRepeats == 3
DefaultMaxConsecutiveRepeats == 3
LowDiversityWindow == 10
LowDiversityMaxUnique == 3

\* Stand-ins for the non-ASCII characters of the source.
FullWidthPeriod == "fw."
FullWidthQuestion == "fw?"
FullWidthExclamation == "fw!"
TerminalPunctuation == {FullWidthPeriod, FullWidthQuestion, FullWidthExclamation, ".", "?", "!"}
FillerWords == {"um", "ah", "uh", "oh"}

Min(a, b) == IF a < b THEN a ELSE b
Max(a, b) == IF a > b THEN a ELSE b

(***************************************************************************)
(* Python string primitives used by the module.                            *)
(***************************************************************************)
IsSpace(ch) == ch = " "

RECURSIVE SkipSpaces(_, _)
\* the first index from i on that holds no whitespace, Len(s) + 1 if there is none
SkipSpaces(s, i) == IF i <= Len(s) /\ IsSpace(s[i]) THEN SkipSpaces(s, i + 1) ELSE i

RECURSIVE SkipSpacesBack(_, _)
\* the last index up to i that holds no whitespace, 0 if there is none
SkipSpacesBack(s, i) == IF i >= 1 /\ IsSpace(s[i]) THEN SkipSpacesBack(s, i - 1) ELSE i

\* str.strip()
strip(s) == SubSeq(s, SkipSpaces(s, 1), SkipSpacesBack(s, Len(s)))

RECURSIVE TokenEnd(_, _)
\* the last index of the token that starts at index i
TokenEnd(s, i) == IF i < Len(s) /\ ~IsSpace(s[i + 1]) THEN TokenEnd(s, i + 1) ELSE i

RECURSIVE SplitFrom(_, _)
SplitFrom(s, i) ==
    LET b == SkipSpaces(s, i)
    IN  IF b > Len(s) THEN <<>>
        ELSE LET e == TokenEnd(s, b)
             IN  <<SubSeq(s, b, e)>> \o SplitFrom(s, e + 1)

\* str.split(): the maximal runs of non-whitespace characters
split(s) == SplitFrom(s, 1)

RECURSIVE join(_)
\* ' '.join(words)
join(words) ==
    IF words = <<>> THEN <<>>
    ELSE IF Len(words) = 1 THEN words[1]
    ELSE words[1] \o <<" ">> \o join(Tail(words))

\* text[:p] for p >= 0
Prefix(s, p) == SubSeq(s, 1, Min(p, Len(s)))

\* text[p:] for p >= 0
Suffix(s, p) == SubSeq(s, Min(p, Len(s)) + 1, Len(s))

\* words[i:j] for 0 <= i <= j <= len(words)
Slice(words, i, j) == SubSeq(words, i + 1, j)

(***************************************************************************)
(* detect_repetitive_ending(text, min_repeats)                             *)
(***************************************************************************)
NotFound == [found |-> FALSE, pos |-> -1]

\* mutant: the guard compares with min_repeats instead of min_repeats * 2
TooFewWords_Half(words, m) == Len(words) < m

\* line 18: the guard on the token count
TooFewWords(words, m) == Len(words) < m * 2

\* mutant: only patterns of up to half the greatest length are tried
MaxPatternLen_Half(words, m) == Len(words) \div (2 * m)

\* line 22: the largest pattern length tried
MaxPatternLen(words, m) == Len(words) \div m

\* mutant: one repetition more than min_repeats is asked for
EnoughRepeats_Strict(repeat_count, m) == repeat_count > m

\* line 36: enough repetitions were counted
EnoughRepeats(repeat_count, m) == repeat_count >= m

RECURSIVE WalkBack(_, _, _, _)
\* lines 27-33: the backward walk over blocks of len(pattern) tokens
WalkBack(words, pattern, pos, repeat_count) ==
    LET pattern_len == Len(pattern)
    IN  IF pos >= pattern_len /\ Slice(words, pos - pattern_len, pos) = pattern
        THEN WalkBack(words, pattern, pos - pattern_len, repeat_count + 1)
        ELSE [pos |-> pos, repeat_count |-> repeat_count]

\* line 43: what one word adds to the character position
WordWidth(word) == Len(word) + 1

RECURSIVE CharPosLoop(_, _, _, _)
\* lines 39-43: the character position of word number repeat_start_word_idx,
\* -1 when the enumeration ends without reaching it
CharPosLoop(words, repeat_start_word_idx, i, char_pos) ==
    IF i >= Len(words) THEN -1
    ELSE IF i = repeat_start_word_idx THEN char_pos
    ELSE CharPosLoop(words, repeat_start_word_idx, i + 1, char_pos + WordWidth(words[i + 1]))

RECURSIVE PatternLoop(_, _, _)
\* lines 22-43: pattern lengths are tried in increasing order
PatternLoop(words, m, pattern_len) ==
    IF pattern_len > MaxPatternLen(words, m) THEN NotFound
    ELSE LET pattern == Slice(words, Len(words) - pattern_len, Len(words))
             w == WalkBack(words, pattern, Len(words) - pattern_len, 1)
             char_pos == CharPosLoop(words, w.pos, 0, 0)
         IN  IF EnoughRepeats(w.repeat_count, m) /\ char_pos >= 0
             THEN [found |-> TRUE, pos |-> char_pos]
             ELSE PatternLoop(words, m, pattern_len + 1)

detect_repetitive_ending(t, m) ==
    IF t = <<>> THEN NotFound
    ELSE LET words == split(strip(t))
         IN  IF TooFewWords(words, m) THEN NotFound
             ELSE PatternLoop(words, m, 1)

(***************************************************************************)
(* clean_repetitive_content(text, max_consecutive_repeats)                 *)
(***************************************************************************)
\* mutant: the period is appended whatever the text ends in
NeedsPeriod_Always(clean_text) == clean_text # <<>>

\* line 64: a full-width period is appended
NeedsPeriod(clean_text) ==
    clean_text # <<>> /\ clean_text[Len(clean_text)] \notin TerminalPunctuation

\* mutant: the text is not cut at the offset
TruncatedText_Uncut(t, p) == strip(t)

\* line 61: the text kept by step 1
TruncatedText(t, p) == strip(Prefix(t, p))

\* lines 61-67: the result of step 1
Step1Result(t, p) ==
    LET clean_text == TruncatedText(t, p)
    IN  IF NeedsPeriod(clean_text) THEN Append(clean_text, FullWidthPeriod) ELSE clean_text

\* lines 55-59: step 1 returns
Step1Fires(t) ==
    LET d == detect_repetitive_ending(t, DefaultMinRepeats)
    IN  /\ d.found
        /\ d.pos > 0
        /\ split(strip(Prefix(t, d.pos))) # <<>>

\* mutant: one repeat more is kept
KeepRepeat_Inclusive(consecutive_count, c) == consecutive_count <= c

\* mutant: one repeat fewer is kept
KeepRepeat_Short(consecutive_count, c) == consecutive_count < c - 1

\* line 79: a repeated word is kept
KeepRepeat(consecutive_count, c) == consecutive_count < c

RECURSIVE CapLoop(_, _, _, _, _)
\* lines 71-84: the scan of step 2; words is what is left to scan
CapLoop(words, cleaned_words, last_word, consecutive_count, c) ==
    IF words = <<>> THEN cleaned_words
    ELSE LET word == Head(words)
         IN  IF word = last_word
             THEN CapLoop(Tail(words),
                          IF KeepRepeat(consecutive_count + 1, c)
                          THEN Append(cleaned_words, word) ELSE cleaned_words,
                          last_word, consecutive_count + 1, c)
             ELSE CapLoop(Tail(words), Append(cleaned_words, word), word, 1, c)

\* lines 70-86: step 2
Step2Result(t, c) == join(CapLoop(split(t), <<>>, <<>>, 0, c))

clean_repetitive_content(t, c) ==
    IF t = <<>> THEN t
    ELSE IF Step1Fires(t)
         THEN Step1Result(t, detect_repetitive_ending(t, DefaultMinRepeats).pos)
         ELSE Step2Result(t, c)

(***************************************************************************)
(* detect_common_hallucinations(text)                                      *)
(***************************************************************************)
TrailingRepetitionLabel == [label |-> "trailing repetition", filler_count |-> 0, total_words |-> 0]
FillerLabel(fc, tw) == [label |-> "excessive filler words", filler_count |-> fc, total_words |-> tw]
LowDiversityLabel == [label |-> "low diversity", filler_count |-> 0, total_words |-> 0]

\* line 102: substring occurrences of the one-character filler words
FillerCount(t) == Cardinality({i \in 1..Len(t) : t[i] \in FillerWords})

\* mutant: a ratio of exactly one filler per ten words counts
TooManyFillers_AtLeast(fc, tw) == tw > 0 /\ 10 * fc >= tw

\* line 104: filler_count / total_words > 0.1
TooManyFillers(fc, tw) == tw > 0 /\ 10 * fc > tw

\* mutant: a text of exactly ten words is looked at as well
LowDiversity_FromTen(words) ==
    /\ Len(words) >= LowDiversityWindow
    /\ LET last_10 == Slice(words, Len(words) - LowDiversityWindow, Len(words))
       IN  Cardinality({last_10[i] : i \in 1..Len(last_10)}) <= LowDiversityMaxUnique

\* lines 109-112
LowDiversity(words) ==
    /\ Len(words) > LowDiversityWindow
    /\ LET last_10 == Slice(words, Len(words) - LowDiversityWindow, Len(words))
       IN  Cardinality({last_10[i] : i \in 1..Len(last_10)}) <= LowDiversityMaxUnique

detect_common_hallucinations(t) ==
    LET total_words == Len(split(t))
        filler_count == FillerCount(t)
    IN  (IF detect_repetitive_ending(t, DefaultMinRepeats).found
         THEN <<TrailingRepetitionLabel>> ELSE <<>>)
        \o (IF TooManyFillers(filler_count, total_words)
            THEN <<FillerLabel(filler_count, total_words)>> ELSE <<>>)
        \o (IF LowDiversity(split(t)) THEN <<LowDiversityLabel>> ELSE <<>>)

(***************************************************************************)
(* postprocess_transcription(transcription_result)                         *)
(*                                                                         *)
(* A Python value is a record that names its type; a mapping is a function *)
(* from its keys to values; the argument is None or a mapping.             *)
(***************************************************************************)
NoReport ==
    [original_length |-> 0, cleaned_length |-> 0, detected_issues |-> <<>>, was_cleaned |-> FALSE]
PyStr(s) == [type |-> "str", str |-> s, int |-> 0, report |-> NoReport]
PyInt(n) == [type |-> "int", str |-> <<>>, int |-> n, report |-> NoReport]
PyNone == [type |-> "NoneType", str |-> <<>>, int |-> 0, report |-> NoReport]
PyReport(r) == [type |-> "dict", str |-> <<>>, int |-> 0, report |-> r]

EmptyMapping == [k \in {} |-> PyNone]
NoneArgument == [is_none |-> TRUE, map |-> EmptyMapping]
Mapping(m) == [is_none |-> FALSE, map |-> m]

\* mutant: the test for the 'text' key is missing
NothingToDo_NoKeyCheck(tr) == tr.is_none \/ DOMAIN tr.map = {}

\* line 121: nothing to do
NothingToDo(tr) == tr.is_none \/ DOMAIN tr.map = {} \/ "text" \notin DOMAIN tr.map

\* a value on which .strip() / .split() can be called
IsStr(v) == v.type = "str"

\* mutant: an empty text raises as well
Raises_OnEmptyText(tr) ==
    \/ tr.is_none
    \/ "text" \notin DOMAIN tr.map
    \/ ~IsStr(tr.map["text"])
    \/ tr.map["text"].str = <<>>

\* lines 127-130 raise AttributeError: a non-string text reaches .strip() in
\* detect_repetitive_ending (line 17) or .split() in detect_common_hallucinations
\* (line 101); line 124 raises TypeError on None and KeyError on a mapping without 'text'
Raises(tr) == tr.is_none \/ "text" \notin DOMAIN tr.map \/ ~IsStr(tr.map["text"])

\* mutant: cleaned_length is measured on the original text
Report_LengthOfOriginal(original_text, cleaned) ==
    [original_length |-> Len(original_text),
     cleaned_length |-> Len(original_text),
     detected_issues |-> detect_common_hallucinations(original_text),
     was_cleaned |-> cleaned # original_text]

\* mutant: the issues are detected on the cleaned text
Report_IssuesOfCleaned(original_text, cleaned) ==
    [original_length |-> Len(original_text),
     cleaned_length |-> Len(cleaned),
     detected_issues |-> detect_common_hallucinations(cleaned),
     was_cleaned |-> cleaned # original_text]

\* lines 135-140
Report(original_text, cleaned) ==
    [original_length |-> Len(original_text),
     cleaned_length |-> Len(cleaned),
     detected_issues |-> detect_common_hallucinations(original_text),
     was_cleaned |-> cleaned # original_text]

\* lines 133-142: the copy with 'text' replaced and 'postprocessing' added
Postprocessed(tr) ==
    LET original_text == tr.map["text"].str
        cleaned == clean_repetitive_content(original_text, DefaultMaxConsecutiveRepeats)
    IN  Mapping([k \in DOMAIN tr.map \cup {"postprocessing"} |->
                    IF k = "postprocessing" THEN PyReport(Report(original_text, cleaned))
                    ELSE IF k = "text" THEN PyStr(cleaned)
                    ELSE tr.map[k]])

\* mutant: line 133 without .copy(), result and the argument are one object
ArgumentAfterCall_Aliased(tr, returned) == returned

\* line 133: lines 134-140 write to a copy, the caller's mapping stays as it was
ArgumentAfterCall(tr, returned) == tr

\* the outcome: an exception or the returned value, and the caller's mapping
\* as the call leaves it
postprocess_transcription(tr) ==
    IF NothingToDo(tr) THEN [raised |-> FALSE, value |-> tr, argument |-> tr]
    ELSE IF Raises(tr) THEN [raised |-> TRUE, value |-> NoneArgument, argument |-> tr]
    ELSE LET returned == Postprocessed(tr)
         IN  [raised |-> FALSE, value |-> returned,
              argument |-> ArgumentAfterCall(tr, returned)]

(***************************************************************************)
(* The inputs.                                                             *)
(***************************************************************************)
Vocabulary == {<<".">>, <<".", "a">>}

TokenSeqs == UNION {[1..n -> Vocabulary] : n \in 0..MaxTokens}

\* At most one irregularity of whitespace in a text: leading whitespace, gaps
\* of more than one whitespace character, or trailing whitespace.
Layouts ==
    {[lead |-> l, gap |-> 1, trail |-> 0] : l \in 0..MaxLead}
    \cup {[lead |-> 0, gap |-> g, trail |-> 0] : g \in 1..MaxGap}
    \cup {[lead |-> 0, gap |-> 1, trail |-> r] : r \in 0..MaxTrail}

Spaces(k) == [i \in 1..k |-> " "]

RECURSIVE Render(_, _, _)
\* the tokens from number i on, separated by gaps of `gap` spaces
Render(toks, i, gap) ==
    IF i > Len(toks) THEN <<>>
    ELSE toks[i]
         \o (IF i < Len(toks) THEN Spaces(gap) ELSE <<>>)
         \o Render(toks, i + 1, gap)

Layout(toks, ly) == Spaces(ly.lead) \o Render(toks, 1, ly.gap) \o Spaces(ly.trail)

\* scenario A of the specification: 'hello world. ' and a phrase without
\* whitespace written four times back to back
HelloWorld == <<"h", "e", "l", "l", "o", " ", "w", "o", "r", "l", "d", ".", " ">>
Phrases == UNION {[1..n -> {"a", ".", FullWidthPeriod}] : n \in 1..MaxPhraseLen}
ScenarioA(phrase) == HelloWorld \o phrase \o phrase \o phrase \o phrase
ScenarioATexts == {ScenarioA(ph) : ph \in Phrases}

\* texts for the filler and diversity heuristics: up to MaxFillerTokens tokens
\* holding filler characters (alone, inside a longer token, two in one token),
\* then n tokens that cycle through d distinct letters
FillerVocabulary == {<<"um">>, <<"a", "uh">>, <<"um", "ah">>}
FillerHeads == UNION {[1..n -> FillerVocabulary] : n \in 0..MaxFillerTokens}
Letters == <<"a", "b", "c", "d", "e", "f">>
PlainTokens(n, d) == [i \in 1..n |-> <<Letters[(((i - 1) % d) % Len(Letters)) + 1]>>]
HeuristicTexts ==
    {Render(h \o PlainTokens(n, d), 1, 1) :
        h \in FillerHeads, n \in 0..MaxPlainTokens, d \in 1..MaxDistinct}

Texts ==
    {Layout(ts, ly) : ts \in TokenSeqs, ly \in Layouts}
    \cup ScenarioATexts \cup HeuristicTexts

\* the arguments of postprocess_transcription built around a text
Arguments(t) ==
    {NoneArgument,
     Mapping(EmptyMapping),
     Mapping([k \in {"model"} |-> PyStr(<<"m">>)]),
     Mapping([k \in {"text"} |-> PyStr(t)]),
     Mapping([k \in {"text", "model"} |-> IF k = "text" THEN PyStr(t) ELSE PyStr(<<"m">>)]),
     Mapping([k \in {"text"} |-> PyNone]),
     Mapping([k \in {"text"} |-> PyInt(Len(t))])}

(***************************************************************************)
(* stt_proxy.py: requests, responses and the pure parts of the handlers.   *)
(*                                                                         *)
(* A URL path is the sequence of its separators and segments; a query      *)
(* string, a body, a header value and a form value are sequences of        *)
(* characters or of longer pieces.  The values of the configuration are    *)
(* Python values, as json.load produces them.                              *)
(***************************************************************************)
PyBool(b) == [type |-> "bool", str |-> <<>>, int |-> IF b THEN 1 ELSE 0, report |-> NoReport]

\* a float with one decimal place, held in tenths: PyFloat(2) is 0.2
PyFloat(tenths) == [type |-> "float", str |-> <<>>, int |-> tenths, report |-> NoReport]

Digit(n) == <<"0", "1", "2", "3", "4", "5", "6", "7", "8", "9">>[n + 1]

RECURSIVE Digits(_)
\* the decimal digits of a natural number
Digits(n) == IF n < 10 THEN <<Digit(n)>> ELSE Append(Digits(n \div 10), Digit(n % 10))

\* line 221: str(default_value)
str(v) ==
    CASE v.type = "str" -> v.str
      [] v.type = "int" -> IF v.int < 0 THEN <<"-">> \o Digits(-v.int) ELSE Digits(v.int)
      [] v.type = "bool" -> IF v.int = 1 THEN <<"T", "r", "u", "e">>
                            ELSE <<"F", "a", "l", "s", "e">>
      [] v.type = "float" -> Digits(v.int \div 10) \o <<".">> \o Digits(v.int % 10)
      [] OTHER -> <<"N", "o", "n", "e">>

\* a field of a parsed form: a string, or an uploaded file
FormField(s) == [is_file |-> FALSE, value |-> s, filename |-> <<>>, content_type |-> <<>>]
UploadFile(filename, content, content_type) ==
    [is_file |-> TRUE, value |-> content, filename |-> filename,
     content_type |-> content_type]
NoFields == [k \in {} |-> FormField(<<>>)]
NoHeaders == [h \in {} |-> <<>>]

\* dict.pop(key, None)
pop(d, key) == [k \in DOMAIN d \ {key} |-> d[k]]

\* str.endswith
endswith(s, suffix) ==
    /\ Len(s) >= Len(suffix)
    /\ SubSeq(s, Len(s) - Len(suffix) + 1, Len(s)) = suffix

\* line 186: the literal "/audio/transcriptions"
AudioTranscriptions == <<"/", "audio", "/", "transcriptions">>

\* line 179: the route "/{path:path}" binds path to what follows the leading "/"
RoutePath(url_path) == Tail(url_path)

HealthPath == <<"/", "health">>
StatsPath == <<"/", "stats">>

\* lines 155, 161, 179: the routes in the order they are registered
Route(req) ==
    IF req.method = "GET" /\ req.path = HealthPath THEN "health_check"
    ELSE IF req.method = "GET" /\ req.path = StatsPath THEN "get_stats"
    ELSE "proxy_handler"

\* mutant: every POST is taken for a transcription request
IsSttRequest_AnyPost(req) == req.method = "POST"

\* line 186
IsSttRequest(req) ==
    endswith(RoutePath(req.path), AudioTranscriptions) /\ req.method = "POST"

\* mutant: a transcription request is not counted in the total a second time
update_stats_SttNotInTotal(stats, request_type) ==
    IF request_type = "stt" THEN [stats EXCEPT !.stt_requests = @ + 1]
    ELSE IF request_type = "forwarded"
         THEN [stats EXCEPT !.total_requests = @ + 1, !.forwarded_requests = @ + 1]
    ELSE [stats EXCEPT !.total_requests = @ + 1]

\* lines 169-176
update_stats(stats, request_type) ==
    LET counted == [stats EXCEPT !.total_requests = @ + 1]
    IN  IF request_type = "stt" THEN [counted EXCEPT !.stt_requests = @ + 1]
        ELSE IF request_type = "forwarded"
             THEN [counted EXCEPT !.forwarded_requests = @ + 1]
        ELSE counted

\* lines 35-39
NoRequestsCounted == [total_requests |-> 0, stt_requests |-> 0, forwarded_requests |-> 0]

\* line 97: the target URL is the base URL and request.url.path
TargetUrl(req) == [path |-> req.path, query |-> <<>>]

\* lines 100-102
ForwardedHeaders(req) == pop(pop(req.headers, "host"), "content-length")

NoUpstreamRequest ==
    [sent |-> FALSE, method |-> "", path |-> <<>>, query |-> <<>>, headers |-> NoHeaders,
     content |-> <<>>, data |-> NoFields, files |-> NoFields]

\* lines 114-123: http_client.post(target_url, data, files, headers)
MultipartPost(req, form_data, files) ==
    [sent |-> TRUE, method |-> "POST",
     path |-> TargetUrl(req).path, query |-> TargetUrl(req).query,
     headers |-> pop(ForwardedHeaders(req), "content-type"),
     content |-> <<>>, data |-> form_data, files |-> files]

\* lines 128-138: http_client.request(method, url, content, headers)
DirectRequest(req) ==
    [sent |-> TRUE, method |-> req.method,
     path |-> TargetUrl(req).path, query |-> TargetUrl(req).query,
     headers |-> ForwardedHeaders(req),
     content |-> req.body, data |-> NoFields, files |-> NoFields]

\* line 105
SendsForm(req, modified_form_data_given) == req.method = "POST" /\ modified_form_data_given

\* lines 92-138: the request forward_request sends
forward_request(req, modified_form_data_given, modified_form_data, files) ==
    IF SendsForm(req, modified_form_data_given)
    THEN MultipartPost(req, modified_form_data, files)
    ELSE DirectRequest(req)

\* lines 204-212: the file of the form, as (filename, content, content_type)
FilesOf(form) == [k \in DOMAIN form \cap {"file"} |-> form[k]]

\* lines 201, 214: the form without its file
FieldsOf(form) == pop(form, "file")

\* line 208: a 'file' field that is a string has no read()
FileReadRaises(form) == "file" \in DOMAIN form /\ ~form["file"].is_file

\* mutant: a field the client sent is kept, the configuration fills the gaps
OverrideWithConfig_ClientWins(form_data, cfg) ==
    [k \in DOMAIN form_data \cup DOMAIN cfg |->
        IF k \in DOMAIN form_data THEN form_data[k] ELSE FormField(str(cfg[k]))]

\* lines 217-221: form_data[key] = str(default_value) for every key of config
OverrideWithConfig(form_data, cfg) ==
    [k \in DOMAIN form_data \cup DOMAIN cfg |->
        IF k \in DOMAIN cfg THEN FormField(str(cfg[k])) ELSE form_data[k]]

\* lines 150, 248
InternalServerError == 500

JsonHeaders == [h \in {"content-type"} |-> <<"application/json">>]

NoResponse ==
    [status_code |-> 0, content |-> <<>>, headers |-> NoHeaders, stats |-> NoRequestsCounted]

\* mutant: the message of the exception is left out of the body
ErrorResponse_NoMessage(what_failed, message) ==
    [status_code |-> InternalServerError,
     content |-> <<"{", "error", ":", what_failed, "}">>,
     headers |-> JsonHeaders, stats |-> NoRequestsCounted]

\* lines 148-152 and 246-250: {"error": "<what failed>: <message>"}
ErrorResponse(what_failed, message) ==
    [status_code |-> InternalServerError,
     content |-> <<"{", "error", ":", what_failed>> \o message \o <<"}">>,
     headers |-> JsonHeaders, stats |-> NoRequestsCounted]

\* lines 141-145
PassedResponse(upstream) ==
    [status_code |-> upstream.status_code, content |-> upstream.content,
     headers |-> upstream.headers, stats |-> NoRequestsCounted]

\* line 158
HealthResponse ==
    [status_code |-> 200, content |-> <<"{", "status", ":", "healthy", "}">>,
     headers |-> JsonHeaders, stats |-> NoRequestsCounted]

\* line 165
StatsResponse(stats) ==
    [status_code |-> 200, content |-> <<"{", "request_stats", "}">>,
     headers |-> JsonHeaders, stats |-> stats]

NoUpstreamResponse ==
    [raised |-> FALSE, status_code |-> 0, content |-> <<>>, headers |-> NoHeaders,
     message |-> <<>>]

(***************************************************************************)
(* The configurations, the requests of the clients and the answers of the  *)
(* target server.                                                          *)
(***************************************************************************)
FullConfig ==
    [k \in {"language", "temperature", "best_of", "word_timestamps"} |->
        CASE k = "language" -> PyStr(<<"z", "h">>)
          [] k = "temperature" -> PyFloat(2)
          [] k = "best_of" -> PyInt(10)
          [] OTHER -> PyBool(FALSE)]

Configs ==
    {EmptyMapping,
     [k \in {"language"} |-> FullConfig[k]],
     [k \in {"language", "temperature"} |-> FullConfig[k]],
     FullConfig}

V1Transcriptions == <<"/", "v1">> \o AudioTranscriptions
ChatCompletions == <<"/", "v1", "/", "chat", "/", "completions">>
UrlPaths == {V1Transcriptions, AudioTranscriptions, ChatCompletions, HealthPath, StatsPath}

Methods == {"GET", "POST", "PUT", "DELETE", "PATCH"}
Queries == {<<>>, <<"a", "=", "1">>}
Bodies == {<<>>, <<"b">>}

ClientHeaders(content_type, body) ==
    [h \in {"host", "authorization"}
           \cup (IF body = <<>> THEN {} ELSE {"content-length", "content-type"}) |->
        CASE h = "host" -> <<"localhost:10241">>
          [] h = "authorization" -> <<"Bearer k">>
          [] h = "content-length" -> Digits(Len(body))
          [] OTHER -> content_type]

\* requests with a raw body
PlainRequests ==
    {[method |-> m, path |-> p, query |-> q, body |-> b,
      headers |-> ClientHeaders(<<"application/json">>, b), form |-> NoFields] :
        m \in Methods, p \in UrlPaths, q \in Queries, b \in Bodies}

AudioFile == UploadFile(<<"audio.wav">>, <<"RIFF">>, <<"audio/wav">>)

\* the forms of the clients: language and model given or not, the file
\* uploaded, missing, or sent as a string
ClientForms ==
    {[k \in keys |->
        CASE k = "language" -> FormField(<<"e", "n">>)
          [] k = "temperature" -> FormField(<<"0", ".", "8">>)
          [] k = "model" -> FormField(<<"whisper-base">>)
          [] OTHER -> file] :
        keys \in SUBSET {"language", "temperature", "model", "file"},
        file \in {AudioFile, FormField(<<"audio.wav">>)}}

\* transcription requests as the tests and the scripts send them
FormRequests ==
    {[method |-> "POST", path |-> p, query |-> <<>>, body |-> <<"multipart">>,
      headers |-> ClientHeaders(<<"multipart/form-data">>, <<"multipart">>), form |-> f] :
        p \in {V1Transcriptions, AudioTranscriptions}, f \in ClientForms}

Requests == PlainRequests \cup FormRequests

NoRequest ==
    [method |-> "", path |-> <<>>, query |-> <<>>, body |-> <<>>, headers |-> NoHeaders,
     form |-> NoFields]

UpstreamHeaders ==
    [h \in {"content-type", "content-length"} |->
        IF h = "content-type" THEN <<"application/json">> ELSE <<"2">>]

\* the target server answers, or the call raises (unreachable, timeout)
UpstreamResponses ==
    {[raised |-> FALSE, status_code |-> sc, content |-> <<"o", "k">>,
      headers |-> UpstreamHeaders, message |-> <<>>] : sc \in {200, 404}}
    \cup {[raised |-> TRUE, status_code |-> 0, content |-> <<>>, headers |-> NoHeaders,
           message |-> <<"connection refused">>]}

(***************************************************************************)
(* The state machine: one call of one function per behaviour.              *)
(***************************************************************************)
\* a handler of the event loop that handles no request
FreeHandler == [pc |-> "free", request |-> NoRequest, upstream_request |-> NoUpstreamRequest]

\* no request has reached the proxy
NoRequestsYet ==
    /\ request_stats = NoRequestsCounted
    /\ requests_received = 0
    /\ proxied = [requests |-> 0, transcription_posts |-> 0]
    /\ request = NoRequest
    /\ handler_pc = "idle"
    /\ dispatched_to = "none"
    /\ upstream_request = NoUpstreamRequest
    /\ upstream_response = NoUpstreamResponse
    /\ response = NoResponse
    /\ handlers = [h \in 1..MaxHandlers |-> FreeHandler]

\* no function of the cleaner has been called
NotCalled ==
    /\ pc = "ready"
    /\ min_repeats = 0
    /\ max_consecutive_repeats = 0
    /\ has_repeat = FALSE
    /\ repeat_pos = -1
    /\ cleaned_text = <<>>
    /\ detected_issues = <<>>
    /\ transcription_result = NoneArgument
    /\ result = [raised |-> FALSE, value |-> NoneArgument, argument |-> NoneArgument]

Init ==
    /\ text \in Texts
    /\ NotCalled
    /\ config = EmptyMapping
    /\ NoRequestsYet

DetectRepetitiveEnding ==
    /\ pc = "ready"
    /\ \E m \in 1..MaxMinRepeats :
          LET d == detect_repetitive_ending(text, m)
          IN  /\ min_repeats' = m
              /\ has_repeat' = d.found
              /\ repeat_pos' = d.pos
    /\ pc' = "detect_repetitive_ending"
    /\ UNCHANGED <<text, max_consecutive_repeats, cleaned_text, detected_issues,
                   transcription_result, result>>
    /\ UNCHANGED proxy_vars

CleanRepetitiveContent ==
    /\ pc = "ready"
    /\ \E c \in 1..MaxConsecutive :
          /\ max_consecutive_repeats' = c
          /\ cleaned_text' = clean_repetitive_content(text, c)
    /\ pc' = "clean_repetitive_content"
    /\ UNCHANGED <<text, min_repeats, has_repeat, repeat_pos, detected_issues,
                   transcription_result, result>>
    /\ UNCHANGED proxy_vars

DetectCommonHallucinations ==
    /\ pc = "ready"
    /\ detected_issues' = detect_common_hallucinations(text)
    /\ pc' = "detect_common_hallucinations"
    /\ UNCHANGED <<text, min_repeats, max_consecutive_repeats, has_repeat, repeat_pos,
                   cleaned_text, transcription_result, result>>
    /\ UNCHANGED proxy_vars

PostprocessTranscription ==
    /\ pc = "ready"
    /\ \E tr \in Arguments(text) :
          /\ transcription_result' = tr
          /\ result' = postprocess_transcription(tr)
    /\ pc' = "postprocess_transcription"
    /\ UNCHANGED <<text, min_repeats, max_consecutive_repeats, has_repeat, repeat_pos,
                   cleaned_text, detected_issues>>
    /\ UNCHANGED proxy_vars

Next ==
    \/ DetectRepetitiveEnding
    \/ CleanRepetitiveContent
    \/ DetectCommonHallucinations
    \/ PostprocessTranscription

Spec == Init /\ [][Next]_vars

(***************************************************************************)
(* The state machine of the proxy: a request is received when the handler  *)
(* of the one before it has returned, and its handler runs from one await  *)
(* to the next.                                                            *)
(***************************************************************************)
ProxyInit ==
    /\ text = <<>>
    /\ NotCalled
    /\ config \in Configs
    /\ NoRequestsYet

\* the event loop is free to start the handler of another request
CanReceive ==
    /\ handler_pc \in {"idle", "returned"}
    /\ requests_received < MaxRequests

\* lines 155-158: GET /health
HealthCheck ==
    /\ CanReceive
    /\ \E req \in Requests :
          /\ Route(req) = "health_check"
          /\ request' = req
    /\ requests_received' = requests_received + 1
    /\ dispatched_to' = "health_check"
    /\ handler_pc' = "returned"
    /\ upstream_request' = NoUpstreamRequest
    /\ upstream_response' = NoUpstreamResponse
    /\ response' = HealthResponse
    /\ UNCHANGED <<config, request_stats, proxied>>
    /\ UNCHANGED cleaner_vars
    /\ UNCHANGED handlers

\* lines 161-165: GET /stats
GetStats ==
    /\ CanReceive
    /\ \E req \in Requests :
          /\ Route(req) = "get_stats"
          /\ request' = req
    /\ requests_received' = requests_received + 1
    /\ dispatched_to' = "get_stats"
    /\ handler_pc' = "returned"
    /\ upstream_request' = NoUpstreamRequest
    /\ upstream_response' = NoUpstreamResponse
    /\ response' = StatsResponse(request_stats)
    /\ UNCHANGED <<config, request_stats, proxied>>
    /\ UNCHANGED cleaner_vars
    /\ UNCHANGED handlers

\* a POST whose URL path is "/", anything, and "/audio/transcriptions": the
\* path the route binds, which is the URL path after its first "/", ends in
\* /audio/transcriptions
PostToTranscriptionRoute(req) ==
    /\ req.method = "POST"
    /\ \E n \in 0..Len(req.path) :
          /\ Len(req.path) = 1 + n + Len(AudioTranscriptions)
          /\ req.path[1] = "/"
          /\ SubSeq(req.path, n + 2, Len(req.path)) = AudioTranscriptions

\* lines 179-191, up to the first await of the function the request is
\* dispatched to: request.form() (line 200) or request.body() (line 128)
ProxyHandler ==
    /\ CanReceive
    /\ \E req \in Requests :
          /\ Route(req) = "proxy_handler"
          /\ request' = req
          /\ proxied' =
                [requests |-> proxied.requests + 1,
                 transcription_posts |->
                    proxied.transcription_posts
                        + (IF PostToTranscriptionRoute(req) THEN 1 ELSE 0)]
          /\ IF IsSttRequest(req)
             THEN /\ request_stats' =
                        update_stats(update_stats(request_stats, "forwarded"), "stt")
                  /\ dispatched_to' = "handle_stt_request"
                  /\ handler_pc' = "await_form"
             ELSE /\ request_stats' = update_stats(request_stats, "forwarded")
                  /\ dispatched_to' = "forward_request"
                  /\ handler_pc' = "await_body"
    /\ requests_received' = requests_received + 1
    /\ upstream_request' = NoUpstreamRequest
    /\ upstream_response' = NoUpstreamResponse
    /\ response' = NoResponse
    /\ UNCHANGED config
    /\ UNCHANGED cleaner_vars
    /\ UNCHANGED handlers

\* lines 200-242 and 92-123: the form is parsed, the file is set apart, the
\* configuration is written over the fields and the form is posted to the
\* target server; a failure on the way is answered with status 500
HandleSttRequest ==
    /\ handler_pc = "await_form"
    /\ \/ /\ ~FileReadRaises(request.form)
          /\ upstream_request' =
                forward_request(request, TRUE,
                                OverrideWithConfig(FieldsOf(request.form), config),
                                FilesOf(request.form))
          /\ handler_pc' = "await_upstream"
          /\ UNCHANGED response
       \/ /\ \E message \in {<<"no read">>, <<"bad form">>} :
                /\ (message = <<"no read">>) <=> FileReadRaises(request.form)
                /\ response' = ErrorResponse("handling the STT request failed", message)
          /\ handler_pc' = "returned"
          /\ UNCHANGED upstream_request
    /\ UNCHANGED <<config, request_stats, requests_received, proxied, request,
                   dispatched_to, upstream_response>>
    /\ UNCHANGED cleaner_vars
    /\ UNCHANGED handlers

\* lines 92-138: the body is read and the request is sent on as it is
ForwardRequest ==
    /\ handler_pc = "await_body"
    /\ upstream_request' = forward_request(request, FALSE, NoFields, NoFields)
    /\ handler_pc' = "await_upstream"
    /\ UNCHANGED <<config, request_stats, requests_received, proxied, request,
                   dispatched_to, upstream_response, response>>
    /\ UNCHANGED cleaner_vars
    /\ UNCHANGED handlers

\* lines 140-152: the answer of the target server is handed to the client;
\* an exception of the call is answered with status 500
UpstreamReturns ==
    /\ handler_pc = "await_upstream"
    /\ \E answer \in UpstreamResponses :
          /\ upstream_response' = answer
          /\ response' = IF answer.raised
                         THEN ErrorResponse("forwarding the request failed", answer.message)
                         ELSE PassedResponse(answer)
    /\ handler_pc' = "returned"
    /\ UNCHANGED <<config, request_stats, requests_received, proxied, request,
                   dispatched_to, upstream_request>>
    /\ UNCHANGED cleaner_vars
    /\ UNCHANGED handlers

ProxyNext ==
    \/ HealthCheck
    \/ GetStats
    \/ ProxyHandler
    \/ HandleSttRequest
    \/ ForwardRequest
    \/ UpstreamReturns

ProxySpec == ProxyInit /\ [][ProxyNext]_vars

\* The event loop resumes a handler whose await has completed, and the call
\* to the target server completes or raises within the timeout of the
\* client (line 67).
ProxyFairSpec ==
    /\ ProxySpec
    /\ WF_vars(HandleSttRequest)
    /\ WF_vars(ForwardRequest)
    /\ WF_vars(UpstreamReturns)

(***************************************************************************)
(* Concurrently handled requests.  The event loop runs one handler at a    *)
(* time and switches between handlers only where a handler awaits: a step  *)
(* takes one handler from one await to the next.  GET /stats has no await  *)
(* and can run between any two steps.                                      *)
(***************************************************************************)
\* the requests of the concurrent clients
ConcurrentRequests ==
    {r \in Requests :
        /\ Route(r) = "proxy_handler"
        /\ r.method \in {"GET", "POST"}
        /\ r.path \in {V1Transcriptions, ChatCompletions}
        /\ r.query = <<>>
        /\ \/ r.form = NoFields /\ r.body = <<>>
           \/ DOMAIN r.form = {"language", "file"} /\ r.form["file"].is_file}

ConcurrentInit ==
    /\ text = <<>>
    /\ NotCalled
    /\ config \in Configs
    /\ NoRequestsYet

\* the variables of the handler of ProxySpec, which handles nothing here
sequential_vars ==
    <<request, handler_pc, dispatched_to, upstream_request, upstream_response>>

\* lines 179-191 for a request that arrives while others are being handled,
\* up to request.form() (line 200) or request.body() (line 128)
Dispatch(h) ==
    /\ handlers[h].pc = "free"
    /\ requests_received < MaxArrivals
    /\ \E req \in ConcurrentRequests :
          /\ proxied' =
                [requests |-> proxied.requests + 1,
                 transcription_posts |->
                    proxied.transcription_posts
                        + (IF PostToTranscriptionRoute(req) THEN 1 ELSE 0)]
          /\ IF IsSttRequest(req)
             THEN /\ request_stats' =
                        update_stats(update_stats(request_stats, "forwarded"), "stt")
                  /\ handlers' = [handlers EXCEPT ![h] =
                        [pc |-> "await_form", request |-> req,
                         upstream_request |-> NoUpstreamRequest]]
             ELSE /\ request_stats' = update_stats(request_stats, "forwarded")
                  /\ handlers' = [handlers EXCEPT ![h] =
                        [pc |-> "await_body", request |-> req,
                         upstream_request |-> NoUpstreamRequest]]
    /\ requests_received' = requests_received + 1
    /\ UNCHANGED <<config, response>>
    /\ UNCHANGED sequential_vars
    /\ UNCHANGED cleaner_vars

\* lines 200-242 and 92-123, from request.form() to http_client.post
ResumeAfterForm(h) ==
    /\ handlers[h].pc = "await_form"
    /\ \/ /\ ~FileReadRaises(handlers[h].request.form)
          /\ handlers' = [handlers EXCEPT ![h] =
                [pc |-> "await_upstream", request |-> handlers[h].request,
                 upstream_request |->
                    forward_request(handlers[h].request, TRUE,
                        OverrideWithConfig(FieldsOf(handlers[h].request.form), config),
                        FilesOf(handlers[h].request.form))]]
          /\ UNCHANGED response
       \/ /\ response' = ErrorResponse("handling the STT request failed", <<"bad form">>)
          /\ handlers' = [handlers EXCEPT ![h] = FreeHandler]
    /\ UNCHANGED <<config, request_stats, requests_received, proxied>>
    /\ UNCHANGED sequential_vars
    /\ UNCHANGED cleaner_vars

\* lines 92-138, from request.body() to http_client.request
ResumeAfterBody(h) ==
    /\ handlers[h].pc = "await_body"
    /\ handlers' = [handlers EXCEPT ![h] =
          [pc |-> "await_upstream", request |-> handlers[h].request,
           upstream_request |->
              forward_request(handlers[h].request, FALSE, NoFields, NoFields)]]
    /\ UNCHANGED <<config, request_stats, requests_received, proxied, response>>
    /\ UNCHANGED sequential_vars
    /\ UNCHANGED cleaner_vars

\* lines 140-152: the handler returns the answer or the 500
ResumeAfterUpstream(h) ==
    /\ handlers[h].pc = "await_upstream"
    /\ \E answer \in UpstreamResponses :
          response' = IF answer.raised
                      THEN ErrorResponse("forwarding the request failed", answer.message)
                      ELSE PassedResponse(answer)
    /\ handlers' = [handlers EXCEPT ![h] = FreeHandler]
    /\ UNCHANGED <<config, request_stats, requests_received, proxied>>
    /\ UNCHANGED sequential_vars
    /\ UNCHANGED cleaner_vars

\* lines 161-165: GET /stats while other requests are being handled
ObserveStats ==
    /\ response' = StatsResponse(request_stats)
    /\ UNCHANGED <<config, request_stats, requests_received, proxied, handlers>>
    /\ UNCHANGED sequential_vars
    /\ UNCHANGED cleaner_vars

ConcurrentNext ==
    \/ \E h \in 1..MaxHandlers :
          \/ Dispatch(h)
          \/ ResumeAfterForm(h)
          \/ ResumeAfterBody(h)
          \/ ResumeAfterUpstream(h)
    \/ ObserveStats

ConcurrentSpec == ConcurrentInit /\ [][ConcurrentNext]_vars

(***************************************************************************)
(* Reference definitions the properties are stated with.  They are written *)
(* from the meaning of the words (token, run, copy of a pattern), not from *)
(* the loops of the code.                                                  *)
(***************************************************************************)
\* the 1-based indices at which a token of s starts
TokenStarts(s) == {i \in 1..Len(s) : ~IsSpace(s[i]) /\ (i = 1 \/ IsSpace(s[i - 1]))}
TokenCount(s) == Cardinality(TokenStarts(s))

\* the words end in k consecutive copies of their last L tokens
EndsInCopies(words, L, k) ==
    /\ L >= 1 /\ k >= 1 /\ k * L <= Len(words)
    /\ \A j \in (Len(words) - k * L + 1)..(Len(words) - L) : words[j] = words[j + L]

\* the pattern lengths that repeat at least m times at the end
RepeatingLengths(words, m) ==
    {L \in 1..(Len(words) \div m) : EndsInCopies(words, L, m)}

SetMin(S) == CHOOSE x \in S : \A y \in S : x <= y
SetMax(S) == CHOOSE x \in S : \A y \in S : x >= y

\* the greatest number of copies of the last L tokens the words end in
MaxCopies(words, L) == SetMax({k \in 1..(Len(words) \div L) : EndsInCopies(words, L, k)})

\* token index (0-based) at which the run of the smallest repeating pattern starts
RunStart(words, m) ==
    LET L == SetMin(RepeatingLengths(words, m))
    IN  Len(words) - L * MaxCopies(words, L)

RECURSIVE JoinedWidth(_, _)
\* characters taken by the first i words when one separator follows each
JoinedWidth(words, i) == IF i = 0 THEN 0 ELSE JoinedWidth(words, i - 1) + Len(words[i]) + 1

\* s without its leading and trailing whitespace
Trimmed(s) ==
    LET ink == {i \in 1..Len(s) : ~IsSpace(s[i])}
    IN  IF ink = {} THEN <<>> ELSE SubSeq(s, SetMin(ink), SetMax(ink))

\* s without its trailing whitespace
RightTrimmed(s) ==
    LET ink == {i \in 1..Len(s) : ~IsSpace(s[i])}
    IN  IF ink = {} THEN <<>> ELSE SubSeq(s, 1, SetMax(ink))

\* s, followed by a full-width period unless it ends in a terminal mark
Terminated(s) ==
    IF s # <<>> /\ s[Len(s)] \in TerminalPunctuation THEN s ELSE Append(s, FullWidthPeriod)

\* first index of the maximal run of equal tokens that holds index i
RunFirst(words, i) == SetMin({j \in 1..i : \A l \in j..i : words[l] = words[i]})

\* words holds k consecutive tokens equal to w
HasRun(words, w, k) ==
    \E i \in 1..(Len(words) - k + 1) : \A j \in i..(i + k - 1) : words[j] = w

\* the tokens of words, as a set
TokenSet(words) == {words[i] : i \in 1..Len(words)}

RECURSIVE KeptFrom(_, _, _)
\* the tokens from index i on whose place in their run is among the first `keep`
KeptFrom(words, i, keep) ==
    IF i > Len(words) THEN <<>>
    ELSE (IF i - RunFirst(words, i) < keep THEN <<words[i]>> ELSE <<>>)
         \o KeptFrom(words, i + 1, keep)

RECURSIVE TotalLen(_)
TotalLen(words) == IF words = <<>> THEN 0 ELSE Len(Head(words)) + TotalLen(Tail(words))

\* s is its tokens separated by exactly one whitespace character each
SingleSpaced(s) ==
    LET w == split(s)
    IN  Len(s) = TotalLen(w) + (IF w = <<>> THEN 0 ELSE Len(w) - 1)

InputWords == split(text)
AfterDetect == pc = "detect_repetitive_ending"
AfterClean == pc = "clean_repetitive_content"
AfterPostprocess == pc = "postprocess_transcription"
DefaultDetection == detect_repetitive_ending(text, DefaultMinRepeats)

(***************************************************************************)
(* The claims.                                                             *)
(***************************************************************************)

\* C1: on every text on which detect_repetitive_ending(text, 3) reports a
\* repetition, clean_repetitive_content returns a different text on which
\* detect_repetitive_ending(., 3) reports none; texts that are nothing but
\* the repeated pattern (offset 0) included.
C1_CleanRemovesTrailingRepetition ==
    (AfterClean /\ DefaultDetection.found)
        => /\ cleaned_text # text
           /\ ~detect_repetitive_ending(cleaned_text, DefaultMinRepeats).found

\* C2: whenever step 1 of clean_repetitive_content truncated the text,
\* detect_repetitive_ending(., 3) on the cleaned text does not report the
\* pattern that was removed: the cleaned text does not end in 3 or more
\* copies of it.
C2_NoLeftoverOfRemovedPattern ==
    (AfterClean /\ Step1Fires(text))
        => LET L == SetMin(RepeatingLengths(InputWords, DefaultMinRepeats))
               pattern == Slice(InputWords, Len(InputWords) - L, Len(InputWords))
               left == split(cleaned_text)
           IN  ~(/\ detect_repetitive_ending(cleaned_text, DefaultMinRepeats).found
                 /\ EndsInCopies(left, L, DefaultMinRepeats)
                 /\ Slice(left, Len(left) - L, Len(left)) = pattern)

\* C3: scenario A.  On 'hello world. ' followed by a phrase without
\* whitespace written 4 times back to back, detect_repetitive_ending returns
\* (true, index of the first copy) and clean_repetitive_content returns
\* exactly 'hello world.'.
C3_ScenarioA ==
    text \in ScenarioATexts
        => /\ (AfterDetect /\ min_repeats = DefaultMinRepeats)
                => (has_repeat /\ repeat_pos = Len(HelloWorld))
           /\ AfterClean => cleaned_text = RightTrimmed(HelloWorld)

\* C4: whenever detect_repetitive_ending returns (true, p), p is the index in
\* the given text at which the run starts: the tokens of text[:p] are the
\* tokens before the run and text[p:] starts with the first token of the run.
C4_OffsetIsRunStartInText ==
    (AfterDetect /\ has_repeat)
        => LET start == RunStart(InputWords, min_repeats)
               rest == Suffix(text, repeat_pos)
           IN  /\ split(Prefix(text, repeat_pos)) = Slice(InputWords, 0, start)
               /\ rest # <<>> /\ ~IsSpace(rest[1])
               /\ split(rest) = Slice(InputWords, start, Len(InputWords))

C6_SmallestPatternFirst ==
    (AfterDetect /\ has_repeat)
        => /\ RepeatingLengths(InputWords, min_repeats) # {}
           /\ repeat_pos = JoinedWidth(InputWords, RunStart(InputWords, min_repeats))

\* C6 witness: a pattern of two or more tokens was found, with more copies than
\* min_repeats, after a non-empty prefix.
C6_Witness ==
    /\ AfterDetect /\ has_repeat /\ repeat_pos > 0
    /\ LET L == SetMin(RepeatingLengths(InputWords, min_repeats))
       IN  L >= 2 /\ MaxCopies(InputWords, L) > min_repeats

\* C7: for min_repeats >= 1 and a text of fewer than 2 * min_repeats tokens,
\* detect_repetitive_ending returns (false, -1) whatever the tokens are.
C7_NoOpBelowThreshold ==
    (AfterDetect /\ TokenCount(text) < 2 * min_repeats)
        => (~has_repeat /\ repeat_pos = -1)

\* C7 witness: a text below the threshold that ends in min_repeats >= 2 copies
\* of its last token.
C7_Witness ==
    /\ AfterDetect /\ min_repeats >= 2 /\ TokenCount(text) < 2 * min_repeats
    /\ EndsInCopies(InputWords, 1, min_repeats)
    /\ ~has_repeat /\ repeat_pos = -1

\* C8 as stated: for max_consecutive_repeats >= 1 and a text on which step 1
\* does not fire, the output has no run of a token longer than
\* max_consecutive_repeats - 1 where the input had a longer run of that token.
C8_RunsBelowMaxConsecutive ==
    (AfterClean /\ ~Step1Fires(text))
        => \A w \in TokenSet(InputWords) :
              HasRun(InputWords, w, max_consecutive_repeats)
                  => ~HasRun(split(cleaned_text), w, max_consecutive_repeats)

\* C8 amended: the same with the cap max(max_consecutive_repeats - 1, 1): with
\* max_consecutive_repeats = 1 one token of every run is kept.
C8_RunsCappedAtLeastOne ==
    (AfterClean /\ ~Step1Fires(text))
        => LET cap == Max(max_consecutive_repeats - 1, 1)
           IN  \A w \in TokenSet(InputWords) :
                  HasRun(InputWords, w, cap + 1) => ~HasRun(split(cleaned_text), w, cap + 1)

\* C8 witness: step 2 ran with max_consecutive_repeats = 1 on a text with a run
\* of three, of which one token is left.
C8_Witness ==
    /\ AfterClean /\ ~Step1Fires(text) /\ max_consecutive_repeats = 1
    /\ \E w \in TokenSet(InputWords) :
          /\ HasRun(InputWords, w, 3)
          /\ HasRun(split(cleaned_text), w, 1)
          /\ ~HasRun(split(cleaned_text), w, 2)

\* C9: step 2 with max_consecutive_repeats = c >= 2 on a text on which step 1
\* does not fire: of every maximal run of k equal tokens exactly min(k, c - 1)
\* are kept, all other tokens are kept in order, and the output is the kept
\* tokens joined by single spaces.
C9_Step2KeepsFirstOfEachRun ==
    (AfterClean /\ max_consecutive_repeats >= 2 /\ ~Step1Fires(text))
        => /\ split(cleaned_text) = KeptFrom(InputWords, 1, max_consecutive_repeats - 1)
           /\ SingleSpaced(cleaned_text)

\* C9 witness: scenario B, a run of 5 inside a text that does not end in it,
\* cleaned with max_consecutive_repeats = 3: 2 of the 5 are left.
C9_Witness ==
    /\ AfterClean /\ max_consecutive_repeats = DefaultMaxConsecutiveRepeats
    /\ ~Step1Fires(text)
    /\ \E i \in 1..Len(InputWords) :
          /\ InputWords[i] # InputWords[Len(InputWords)]
          /\ InputWords[i] # InputWords[1]
          /\ HasRun(InputWords, InputWords[i], 5)
          /\ ~HasRun(InputWords, InputWords[i], 6)
          /\ HasRun(split(cleaned_text), InputWords[i], 2)
          /\ ~HasRun(split(cleaned_text), InputWords[i], 3)

\* C10: clean_repetitive_content('') returns ''; postprocess_transcription
\* returns its argument unchanged, without a 'postprocessing' key and without
\* raising, when the argument is None, an empty mapping or a mapping without
\* a 'text' key.
C10_IdentityOnEmptyInput ==
    /\ (AfterClean /\ text = <<>>) => cleaned_text = <<>>
    /\ (AfterPostprocess
          /\ (transcription_result.is_none \/ "text" \notin DOMAIN transcription_result.map))
        => /\ ~result.raised
           /\ result.value = transcription_result
           /\ "postprocessing" \notin DOMAIN result.value.map

\* C10 witness: a mapping with a 'model' key and no 'text' key came back as it was.
C10_Witness ==
    /\ AfterPostprocess
    /\ ~transcription_result.is_none
    /\ DOMAIN transcription_result.map = {"model"}
    /\ ~result.raised
    /\ result.value = transcription_result

\* C11: postprocess_transcription called with a mapping whose 'text' is
\* present but is not a string (None, a number) treats it as nothing to do:
\* it does not raise and returns its argument unchanged.
C11_NonStringTextIsNothingToDo ==
    (/\ AfterPostprocess
     /\ ~transcription_result.is_none
     /\ "text" \in DOMAIN transcription_result.map
     /\ ~IsStr(transcription_result.map["text"]))
        => /\ ~result.raised
           /\ result.value = transcription_result

\* the argument of the call carries a string under 'text'
TextIsString ==
    /\ ~transcription_result.is_none
    /\ "text" \in DOMAIN transcription_result.map
    /\ IsStr(transcription_result.map["text"])

\* C12: copy-on-write.  For every mapping with a string 'text',
\* postprocess_transcription leaves the mapping it was given unchanged; the
\* mapping it returns has exactly the keys of the input plus
\* 'postprocessing', and every key other than 'text' and 'postprocessing'
\* has the value it has in the input.
C12_CopyOnWrite ==
    (AfterPostprocess /\ TextIsString)
        => /\ ~result.raised
           /\ result.argument = transcription_result
           /\ DOMAIN result.value.map
                = DOMAIN transcription_result.map \cup {"postprocessing"}
           /\ \A k \in DOMAIN transcription_result.map \ {"text", "postprocessing"} :
                 result.value.map[k] = transcription_result.map[k]

\* a mapping with a second key was processed and its text was changed
C12_Witness ==
    /\ AfterPostprocess
    /\ TextIsString
    /\ "model" \in DOMAIN transcription_result.map
    /\ result.value.map["model"] = transcription_result.map["model"]
    /\ result.value.map["text"] # transcription_result.map["text"]
    /\ result.argument.map["text"] = PyStr(text)
    /\ "postprocessing" \notin DOMAIN result.argument.map

\* the text and the report of the mapping the call returned
ReturnedText == result.value.map["text"].str
ReturnedReport == result.value.map["postprocessing"].report

\* number of filler characters in s, wherever they stand
RECURSIVE FillerOccurrences(_)
FillerOccurrences(s) ==
    IF s = <<>> THEN 0
    ELSE (IF Head(s) \in FillerWords THEN 1 ELSE 0) + FillerOccurrences(Tail(s))

\* more than one filler character per ten tokens
FillerHeuristicFires(s) == TokenCount(s) > 0 /\ 10 * FillerOccurrences(s) > TokenCount(s)

\* distinct values among the last n of the words
DistinctInTail(words, n) ==
    Cardinality({words[i] : i \in Max(1, Len(words) - n + 1)..Len(words)})

\* more than ten tokens, at most three distinct values among the last ten
DiversityHeuristicFires(s) ==
    /\ TokenCount(s) > LowDiversityWindow
    /\ DistinctInTail(split(s), LowDiversityWindow) <= LowDiversityMaxUnique

\* the labels of a list of issues
Labels(issues) == [i \in 1..Len(issues) |-> issues[i].label]

\* C13: the 'postprocessing' report of postprocess_transcription:
\* original_length is the number of characters of the input text,
\* cleaned_length that of the returned text, and was_cleaned is true exactly
\* when the returned text differs from the input text.  For a text of tokens
\* separated by single spaces, without trailing repetition and without a
\* run of 3 identical tokens, was_cleaned is false and detected_issues is
\* empty unless the filler or the diversity heuristic fires.
C13_ReportDescribesTheCall ==
    (AfterPostprocess /\ TextIsString)
        => /\ ReturnedReport.original_length = Len(text)
           /\ ReturnedReport.cleaned_length = Len(ReturnedText)
           /\ ReturnedReport.was_cleaned <=> (ReturnedText # text)
           /\ (/\ SingleSpaced(text)
               /\ RepeatingLengths(InputWords, DefaultMinRepeats) = {}
               /\ \A w \in TokenSet(InputWords) :
                     ~HasRun(InputWords, w, DefaultMaxConsecutiveRepeats))
                 => /\ ~ReturnedReport.was_cleaned
                    /\ \/ ReturnedReport.detected_issues = <<>>
                       \/ FillerHeuristicFires(text)
                       \/ DiversityHeuristicFires(text)

\* a text was shortened and the report says so
C13_Witness ==
    /\ AfterPostprocess
    /\ TextIsString
    /\ ReturnedReport.was_cleaned
    /\ ReturnedReport.cleaned_length < ReturnedReport.original_length
    /\ ReturnedReport.cleaned_length = Len(ReturnedText)
    /\ ReturnedReport.cleaned_length > 0

\* C14: the detected_issues of the report are computed from the original
\* text, not from the cleaned one: they are the result of
\* detect_common_hallucinations on the original text, so whenever step 1
\* truncated a trailing repetition the label of the trailing repetition is
\* among them.
C14_IssuesOfOriginalText ==
    (AfterPostprocess /\ TextIsString)
        => /\ ReturnedReport.detected_issues = detect_common_hallucinations(text)
           /\ Step1Fires(text)
                => /\ ReturnedReport.detected_issues # <<>>
                   /\ ReturnedReport.detected_issues[1] = TrailingRepetitionLabel

\* step 1 removed the repetition: the returned text has none left, and the
\* report names the one of the original text
C14_Witness ==
    /\ AfterPostprocess
    /\ TextIsString
    /\ Step1Fires(text)
    /\ ReturnedText # text
    /\ RepeatingLengths(split(ReturnedText), DefaultMinRepeats) = {}
    /\ ReturnedReport.detected_issues[1] = TrailingRepetitionLabel

AfterHallucinations == pc = "detect_common_hallucinations"

\* the issues that carry the given label
IssuesLabelled(label) ==
    {i \in 1..Len(detected_issues) : detected_issues[i].label = label}

\* C15: detect_common_hallucinations appends the label of excessive filler
\* words if and only if total_words > 0 and 10 * filler_count > total_words,
\* where total_words is the number of whitespace tokens and filler_count the
\* number of occurrences of the four filler characters anywhere in the text,
\* inside longer tokens too; the label carries filler_count and total_words.
\* A ratio of exactly 0.1 does not produce the label.
C15_FillerLabelAboveOneInTen ==
    AfterHallucinations
        => LET filler_count == FillerOccurrences(text)
               total_words == TokenCount(text)
           IN  /\ (IssuesLabelled(FillerLabel(0, 0).label) # {})
                     <=> (total_words > 0 /\ 10 * filler_count > total_words)
               /\ \A i \in IssuesLabelled(FillerLabel(0, 0).label) :
                     /\ detected_issues[i].filler_count = filler_count
                     /\ detected_issues[i].total_words = total_words

\* one filler character in ten tokens: the ratio is exactly 0.1, no label
C15_Witness ==
    /\ AfterHallucinations
    /\ FillerOccurrences(text) = 1
    /\ TokenCount(text) = 10
    /\ IssuesLabelled(FillerLabel(0, 0).label) = {}

\* C16: detect_common_hallucinations appends the label of low diversity if
\* and only if the text has strictly more than 10 whitespace tokens and the
\* last 10 of them hold at most 3 distinct values; a text of exactly 10
\* tokens never gets the label.
C16_LowDiversityAboveTenTokens ==
    AfterHallucinations
        => /\ (IssuesLabelled(LowDiversityLabel.label) # {})
                 <=> /\ TokenCount(text) > LowDiversityWindow
                     /\ DistinctInTail(InputWords, LowDiversityWindow)
                            <= LowDiversityMaxUnique
           /\ TokenCount(text) = LowDiversityWindow
                 => IssuesLabelled(LowDiversityLabel.label) = {}

\* eleven tokens or more, the first of them unlike the last ten, which hold
\* three distinct values: the label is given
C16_Witness ==
    /\ AfterHallucinations
    /\ TokenCount(text) > LowDiversityWindow
    /\ DistinctInTail(InputWords, LowDiversityWindow) = LowDiversityMaxUnique
    /\ Cardinality(TokenSet(InputWords)) > LowDiversityMaxUnique
    /\ IssuesLabelled(LowDiversityLabel.label) # {}

\* the place of a label in the order of the checks
CheckOrder(label) ==
    IF label = TrailingRepetitionLabel.label THEN 1
    ELSE IF label = FillerLabel(0, 0).label THEN 2
    ELSE IF label = LowDiversityLabel.label THEN 3
    ELSE 0

\* C17: for every string (the empty one, whitespace only, fewer tokens than
\* any threshold), min_repeats >= 1 and max_consecutive_repeats >= 1, the
\* four functions return normally: detect_repetitive_ending a pair that is
\* (false, -1) or (true, an offset within the text), clean_repetitive_content
\* a string, postprocess_transcription({'text': s}) a mapping and no
\* exception, and detect_common_hallucinations a list of at most three
\* labels in the order of the checks (trailing repetition, filler, low
\* diversity) without duplicates.
C17_ReturnsNormallyOnStrings ==
    /\ AfterDetect
          => /\ min_repeats >= 1
             /\ has_repeat \in BOOLEAN
             /\ IF has_repeat THEN repeat_pos \in 0..Len(text) ELSE repeat_pos = -1
    /\ AfterClean
          => /\ max_consecutive_repeats >= 1
             /\ DOMAIN cleaned_text = 1..Len(cleaned_text)
             /\ text = <<>> => cleaned_text = <<>>
    /\ AfterHallucinations
          => /\ Len(detected_issues) <= 3
             /\ \A i \in 1..Len(detected_issues) :
                   CheckOrder(detected_issues[i].label) >= 1
             /\ \A i, j \in 1..Len(detected_issues) :
                   i < j => CheckOrder(detected_issues[i].label)
                                < CheckOrder(detected_issues[j].label)
    /\ (AfterPostprocess /\ TextIsString)
          => /\ ~result.raised
             /\ ~result.value.is_none
             /\ IsStr(result.value.map["text"])

\* postprocess_transcription returned normally on the empty string
C17_Witness ==
    /\ AfterPostprocess
    /\ TextIsString
    /\ text = <<>>
    /\ ~result.raised
    /\ ReturnedText = <<>>
    /\ ReturnedReport.detected_issues = <<>>

(***************************************************************************)
(* The claims about the proxy.                                             *)
(***************************************************************************)
\* what Python prints for the values of FullConfig
StringForm ==
    [k \in DOMAIN FullConfig |->
        CASE k = "language" -> <<"z", "h">>
          [] k = "temperature" -> <<"0", ".", "2">>
          [] k = "best_of" -> <<"1", "0">>
          [] OTHER -> <<"F", "a", "l", "s", "e">>]

\* handle_stt_request has sent the form of the request to the target server
FormForwarded == dispatched_to = "handle_stt_request" /\ upstream_request.sent

PostsTranscription(req) ==
    req.method = "POST" /\ req.path \in {V1Transcriptions, AudioTranscriptions}

\* C19: every POST transcription request is intercepted, both when the URL
\* path is /v1/audio/transcriptions and when it is exactly
\* /audio/transcriptions: proxy_handler dispatches it to handle_stt_request
\* and stt_requests is incremented.
C19_TranscriptionPostsIntercepted ==
    [][(requests_received' = requests_received + 1 /\ PostsTranscription(request'))
          => /\ dispatched_to' = "handle_stt_request"
             /\ request_stats'.stt_requests = request_stats.stt_requests + 1]_vars

\* proxy_handler took the request, which is not a POST to a URL path that
\* ends in /audio/transcriptions
NotATranscriptionPost ==
    /\ dispatched_to \in {"forward_request", "handle_stt_request"}
    /\ ~(request.method = "POST" /\ endswith(request.path, AudioTranscriptions))

\* C20: every request handled by proxy_handler that is not a POST to a path
\* ending in /audio/transcriptions is passed through unmodified: the request
\* sent upstream has the client's method, URL path and query string, the
\* client's body, and the client's headers except host and content-length;
\* on success the client receives the status code, body and headers of the
\* target server.
C20_OtherRequestsPassThrough ==
    /\ (NotATranscriptionPost /\ handler_pc \in {"await_upstream", "returned"})
          => /\ upstream_request.sent
             /\ upstream_request.method = request.method
             /\ upstream_request.path = request.path
             /\ upstream_request.query = request.query
             /\ upstream_request.content = request.body
             /\ upstream_request.headers
                   = [h \in DOMAIN request.headers \ {"host", "content-length"} |->
                         request.headers[h]]
    /\ (NotATranscriptionPost /\ handler_pc = "returned" /\ ~upstream_response.raised)
          => /\ response.status_code = upstream_response.status_code
             /\ response.content = upstream_response.content
             /\ response.headers = upstream_response.headers

\* proxy_handler took the request
Proxied == dispatched_to \in {"forward_request", "handle_stt_request"}

\* the handler stands at an await
InFlight == handler_pc \in {"await_form", "await_body", "await_upstream"}

\* the handler of a proxied request returned after a failure: the form could
\* not be handled, so nothing was sent, or the call to the target server raised
FailedBeforeSending == Proxied /\ handler_pc = "returned" /\ ~upstream_request.sent
FailedUpstream == Proxied /\ handler_pc = "returned" /\ upstream_response.raised

\* the body {"error": "<what failed>: <message>"} with a message that is not empty
IsErrorBody(content) ==
    /\ Len(content) > 5
    /\ SubSeq(content, 1, 3) = <<"{", "error", ":">>
    /\ content[Len(content)] = "}"

\* the message in a body of that form
MessageIn(content) == SubSeq(content, 5, Len(content) - 1)

\* C21: every request handled by proxy_handler ends in exactly one response
\* and no exception escapes the handler.  When the handling of the form or
\* the call to the target server fails, the client receives status 500 with
\* a JSON body whose 'error' field holds the message of the failure, and the
\* counters updated for the request stay updated: the counters change only
\* when a request is received.  No response exists while the handler stands
\* at an await, and every handler that stands at an await returns.
C21_OneResponseAndFailuresAnswered ==
    /\ [](InFlight => response = NoResponse)
    /\ []((Proxied /\ handler_pc = "returned") => response.status_code # 0)
    /\ []((FailedBeforeSending \/ FailedUpstream)
            => /\ response.status_code = InternalServerError
               /\ response.headers = JsonHeaders
               /\ IsErrorBody(response.content))
    /\ [](FailedUpstream => MessageIn(response.content) = upstream_response.message)
    /\ []((FailedBeforeSending /\ FileReadRaises(request.form))
            => MessageIn(response.content) = <<"no read">>)
    /\ [][requests_received' = requests_received => request_stats' = request_stats]_vars
    /\ [][response' # response
            => \/ requests_received' = requests_received + 1
               \/ InFlight /\ handler_pc' = "returned"]_vars
    /\ (InFlight ~> handler_pc = "returned")

\* the target server was unreachable for a transcription request: the client
\* has the 500 with the message, and both counters of the request are kept
C21_Witness ==
    /\ FailedUpstream
    /\ dispatched_to = "handle_stt_request"
    /\ response.status_code = InternalServerError
    /\ MessageIn(response.content) = <<"connection refused">>
    /\ request_stats.stt_requests >= 1
    /\ request_stats.forwarded_requests >= 1

\* a request to /health or to /stats was answered by this step
AnsweredByHealthOrStats == dispatched_to' \in {"health_check", "get_stats"}

\* C22: after any sequence of requests, forwarded_requests is the number of
\* requests dispatched to proxy_handler, transcription requests included,
\* and stt_requests the number of those that were a POST with a route path
\* ending in /audio/transcriptions; requests to /health and /stats change
\* none of the three counters.
C22_CountersCountProxiedRequests ==
    /\ [](request_stats.forwarded_requests = proxied.requests)
    /\ [](request_stats.stt_requests = proxied.transcription_posts)
    /\ [][(requests_received' = requests_received + 1 /\ AnsweredByHealthOrStats)
            => request_stats' = request_stats]_vars

\* a transcription request, a request of another kind and nothing else were
\* proxied
C22_Witness ==
    /\ proxied.requests = 2
    /\ proxied.transcription_posts = 1
    /\ request_stats.forwarded_requests = 2
    /\ request_stats.stt_requests = 1

\* C23: after any sequence of requests, total_requests is the number of
\* requests handled by proxy_handler: every proxied request, transcription
\* or not, increases total_requests by exactly 1.
C23_TotalCountsEachRequestOnce ==
    request_stats.total_requests = proxied.requests

\* the counters add up
Consistent(stats) ==
    /\ stats.total_requests = stats.stt_requests + stats.forwarded_requests
    /\ stats.stt_requests <= stats.forwarded_requests

\* C24: in every state observable by /stats, under any interleaving of
\* concurrently handled requests (handlers interleave only at their awaits),
\* total_requests = stt_requests + forwarded_requests and stt_requests <=
\* forwarded_requests; what /stats reported satisfies the same; no increment
\* of a counter is lost, so the counters are the numbers of the requests
\* dispatched, and no counter ever decreases.
C24_CountersConsistentWhenInterleaved ==
    /\ [](Consistent(request_stats))
    /\ [](Consistent(response.stats))
    /\ [](/\ request_stats.forwarded_requests = proxied.requests
          /\ request_stats.stt_requests = proxied.transcription_posts
          /\ proxied.requests = requests_received)
    /\ [][/\ request_stats'.total_requests >= request_stats.total_requests
          /\ request_stats'.stt_requests >= request_stats.stt_requests
          /\ request_stats'.forwarded_requests >= request_stats.forwarded_requests]_vars

\* /stats was read while a transcription request stood at the await of its
\* upstream call and another request at the await of its body
C24_Witness ==
    /\ \E h, g \in 1..MaxHandlers :
          /\ handlers[h].pc = "await_upstream"
          /\ IsSttRequest(handlers[h].request)
          /\ handlers[g].pc = "await_body"
    /\ response.stats = request_stats
    /\ request_stats.stt_requests >= 1
    /\ request_stats.total_requests = MaxArrivals + request_stats.stt_requests

(***************************************************************************)
(* The claims about the cleaner, continued.                                *)
(***************************************************************************)
\* C25: clean_repetitive_content is idempotent with the default parameters:
\* cleaning a cleaned text returns it unchanged, so a second pass of
\* postprocess_transcription over an already cleaned transcription reports
\* was_cleaned = false.
C25_CleanIsIdempotent ==
    /\ (AfterClean /\ max_consecutive_repeats = DefaultMaxConsecutiveRepeats)
          => clean_repetitive_content(cleaned_text, DefaultMaxConsecutiveRepeats)
                = cleaned_text
    /\ (AfterPostprocess /\ TextIsString)
          => ~postprocess_transcription(result.value)
                 .value.map["postprocessing"].report.was_cleaned

\* C26: cleaning never grows the text: clean_repetitive_content returns a
\* text at most as long as the one it was given, also when step 1 appends a
\* full-width period, so every report has cleaned_length <= original_length;
\* and whenever step 1 fires the returned text is strictly shorter than the
\* input.
C26_CleaningNeverGrows ==
    /\ AfterClean
          => /\ Len(cleaned_text) <= Len(text)
             /\ Step1Fires(text) => Len(cleaned_text) < Len(text)
    /\ (AfterPostprocess /\ TextIsString)
          => /\ ReturnedReport.cleaned_length <= ReturnedReport.original_length
             /\ Len(ReturnedText) <= Len(text)

\* step 1 cut the text and appended the full-width period: the result is
\* shorter all the same
C26_Witness ==
    /\ AfterClean
    /\ Step1Fires(text)
    /\ cleaned_text # <<>>
    /\ cleaned_text[Len(cleaned_text)] = FullWidthPeriod
    /\ Trimmed(Prefix(text, DefaultDetection.pos)) # cleaned_text
    /\ Len(cleaned_text) < Len(text)

\* C27: detect_repetitive_ending agrees with the reference definition for
\* every token sequence and every min_repeats m >= 1: it returns found =
\* true if and only if the number n of tokens is at least 2*m and there is
\* a length L with 1 <= L <= floor(n/m) such that the last m*L tokens are m
\* consecutive copies of the last L tokens; whenever found = false the
\* offset is -1, and whenever found = true the offset is >= 0 and smaller
\* than the length of the stripped text.
C27_DetectorAgreesWithReference ==
    AfterDetect
        => LET n == TokenCount(text)
               m == min_repeats
           IN  /\ has_repeat
                    <=> /\ n >= 2 * m
                        /\ \E L \in 1..(n \div m) : EndsInCopies(InputWords, L, m)
               /\ ~has_repeat => repeat_pos = -1
               /\ has_repeat => repeat_pos >= 0 /\ repeat_pos < Len(Trimmed(text))

\* a pattern of two tokens or more, written min_repeats times after other
\* tokens, was found
C27_Witness ==
    /\ AfterDetect
    /\ has_repeat
    /\ min_repeats >= 2
    /\ SetMin(RepeatingLengths(InputWords, min_repeats)) >= 2
    /\ repeat_pos > 0
    /\ repeat_pos < Len(Trimmed(text))

====
